---- MODULE Spec2Model ----
(***************************************************************************)
(* A model of build_sietsemap.py: one batch run of main() loads the        *)
(* restaurant dataset from restaurants.json, walks the feed's posts,       *)
(* extracts candidates from each post, geocodes the candidates whose       *)
(* address is not yet known, appends the resolved ones, and writes the     *)
(* dataset back.  Runs follow each other; the file is the only state that  *)
(* survives from one run to the next.                                      *)
(***************************************************************************)
EXTENDS Integers, Sequences, FiniteSets, TLC

\* ---------------------------------------------------------------- bounds
MaxRuns  == 2      \* successive runs of main()
MaxPosts == 2      \* entries of one fetched feed
MaxFound == 2      \* raw matches (before de-duplication) in one post

\* ------------------------------------------------------------ value sets
Addrs  == {"a1", "a2"}
Names  == {"n1"}
Blurbs == {"b1"}
Dates  == {"", "d1"}
Locs   == {<<40, -73>>, <<41, -74>>}

None == <<>>

\* what extract_restaurants_flexible puts in `found`
Cands == [name : Names, address : Addrs, blurb : Blurbs]

\* a record of `known` / of restaurants.json
Records == [name : Names, address : Addrs, blurb : Blurbs,
            lat : {l[1] : l \in Locs}, lon : {l[2] : l \in Locs}, date_added : Dates]

RECURSIVE SeqsUpTo(_, _)
SeqsUpTo(S, n) ==
    IF n = 0 THEN {<<>>}
    ELSE LET shorter == SeqsUpTo(S, n - 1)
         IN  shorter \cup {Append(s, x) : s \in {t \in shorter : Len(t) = n - 1}, x \in S}

\* A feed entry as pull_posts sees it.  kind "ok": the body parses and the
\* patterns and the entity recogniser produce `found`; "unparsable": the
\* extraction raises; "badentry": the entry's content list is empty, so
\* pull_posts itself raises (IndexError) while building the post.
Posts ==
    [kind : {"ok"}, date : Dates, found : SeqsUpTo(Cands, MaxFound)]
    \cup [kind : {"unparsable"}, date : Dates, found : {<<>>}]
    \cup [kind : {"badentry"}, date : {""}, found : {<<>>}]

\* what the resolver service does with one query
Responses == [kind : {"loc"}, loc : Locs] \cup [kind : {"none", "error"}, loc : {None}]

Addresses(recs) == {recs[i].address : i \in 1..Len(recs)}

NoStore == [exists |-> FALSE, valid |-> FALSE, data |-> <<>>]

\* ------------------------------------------------------- pure functions

\* lines 62-69 left out: every raw match is returned
RemoveDuplicates_none(found, seen, unique) == found

\* lines 62-69: keep the first record of every address, in order
RECURSIVE RemoveDuplicates(_, _, _)
RemoveDuplicates(found, seen, unique) ==
    IF found = <<>> THEN unique
    ELSE LET x == Head(found)
         IN  IF x.address \notin seen
             THEN RemoveDuplicates(Tail(found), seen \cup {x.address}, Append(unique, x))
             ELSE RemoveDuplicates(Tail(found), seen, unique)

\* lines 41-69, from the raw match list on: [raised, value]
extract_restaurants_flexible(p) ==
    IF p.kind = "unparsable"
    THEN [raised |-> TRUE, value |-> <<>>]
    ELSE [raised |-> FALSE, value |-> RemoveDuplicates(p.found, {}, <<>>)]

\* lines 71-75: [raised, value]; json.load raises on a file that is not a
\* complete JSON document.  A complete document written by json.dump reads
\* back as the same list of dicts (strings and floats round-trip).
load_cache(s) ==
    IF ~s.exists THEN [raised |-> FALSE, value |-> <<>>]
    ELSE IF s.valid THEN [raised |-> FALSE, value |-> s.data]
    ELSE [raised |-> TRUE, value |-> <<>>]

\* lines 86-88 answering an error with a default location
geocode_default(resp) ==
    IF resp.kind = "loc" THEN resp.loc
    ELSE IF resp.kind = "error" THEN <<40, -73>> ELSE None

\* lines 81-88: the resolver's location, or None for no match and for any error
geocode(resp) ==
    IF resp.kind = "loc" THEN resp.loc ELSE None

\* line 93 left out: the run starts with an empty membership set
SeenOf_empty(recs) == {}

\* line 93: the membership set built from the loaded records
SeenOf(recs) == Addresses(recs)

\* line 107 testing nothing: no candidate is ever skipped
IsKnown_never(a, seen) == FALSE

\* line 107: the membership test
IsKnown(a, seen) == a \in seen

\* line 114 inserting at the head of the list
AppendKnown_front(recs, x) == <<x>> \o recs

\* line 114
AppendKnown(recs, x) == Append(recs, x)

\* line 115 left out: an appended address is not remembered
AddSeen_forgets(seen, a) == seen

\* line 115
AddSeen(seen, a) == seen \cup {a}

\* line 98 stopping one entry early
FeedExhausted_early(n) == n <= 1

\* line 98: the for loop ends when pull_posts has no entry left
FeedExhausted(n) == n = 0

\* lines 101-104 ending the run on an extraction fault
AfterExtractFault_abort == "aborted"

\* lines 101-104: the handler prints and continues with the next post
AfterExtractFault == "post"

\* line 106 taking the same candidate again
NextIndex_stuck(i) == i

\* line 106: the inner loop moves on to the next candidate
NextIndex(i) == i + 1

\* line 116 left out
Bump_none(n) == n

\* line 116
Bump(n) == n + 1

\* line 113 stamping a record with the day of the run
Finalize_today(cand, c, p) ==
    [name |-> cand.name, address |-> cand.address, blurb |-> cand.blurb,
     lat |-> c[1], lon |-> c[2], date_added |-> "d1"]

\* lines 112-113: the candidate with coordinates and date
Finalize(cand, c, p) ==
    [name |-> cand.name, address |-> cand.address, blurb |-> cand.blurb,
     lat |-> c[1], lon |-> c[2],
     date_added |-> IF p.date = "" THEN "" ELSE p.date]

\* ------------------------------------------------------------- variables
VARIABLES
    store,        \* restaurants.json: [exists, valid, data]
    pc,           \* position of main()
    known,        \* the list `known`
    seen_addrs,   \* the set `seen_addrs`
    new_found,    \* the counter `new_found`
    feedLeft,     \* entries of the fetched feed not yet pulled
    post,         \* the current post (its date)
    extracted,    \* the current post's candidates
    ci,           \* how many of them the inner loop has taken
    coords,       \* result of the last geocode call
    lastKind,     \* history: what the resolver did on that call
    hits,         \* history: resolver invocations of this run that gave a location
    xfaults,      \* history: posts of this run whose extraction raised
    run,          \* number of the current run
    store0,       \* history: the store when the run started
    calls,        \* history: resolver invocations per address in this run
    failed,       \* history: addresses whose resolution failed in this run
    pendingDelay, \* history: a resolver invocation not yet followed by a sleep
    sleeps,       \* history: number of sleeps in this run
    saves,        \* history: number of save_cache calls in this run
    mode,         \* "free", "record" (the next run sees the same candidates) or "replay"
    log,          \* record mode: the candidate lists extracted so far
    script,       \* replay mode: the candidate lists of the recorded run
    answers,      \* record/replay: what geocode returned per address
    consistent,   \* record/replay: geocode gave one answer per address
    text,         \* the article text extract_restaurants_flexible works on
    found,        \* the list `found` of extract_restaurants_flexible
    spans,        \* history: where each record of `found` comes from
    ents          \* history: the entities the recogniser reported

vars == <<store, pc, known, seen_addrs, new_found, feedLeft, post, extracted, ci,
          coords, lastKind, run, store0, calls, failed, pendingDelay, sleeps, saves,
          mode, log, script, answers, consistent, hits, xfaults, text, found, spans, ents>>

prog  == <<known, seen_addrs, new_found, feedLeft, post, extracted, ci, coords>>
hist  == <<lastKind, hits, xfaults, calls, failed, pendingDelay, sleeps, saves>>
rec   == <<mode, log, script, answers, consistent>>
art   == <<text, found, spans, ents>>

NoPost     == [date |-> ""]
NoCalls    == [a \in Addrs |-> 0]
NoAnswers  == [a \in Addrs |-> "unasked"]

Modes(n) == IF n < MaxRuns THEN {"free", "record"} ELSE {"free"}

Init ==
    /\ store = NoStore
    /\ pc = "load"
    /\ known = <<>>
    /\ seen_addrs = {}
    /\ new_found = 0
    /\ feedLeft = 0
    /\ post = NoPost
    /\ extracted = <<>>
    /\ ci = 0
    /\ coords = None
    /\ lastKind = "-"
    /\ hits = 0
    /\ xfaults = 0
    /\ run = 1
    /\ store0 = NoStore
    /\ calls = NoCalls
    /\ failed = {}
    /\ pendingDelay = FALSE
    /\ sleeps = 0
    /\ saves = 0
    /\ mode \in Modes(1)
    /\ log = <<>>
    /\ script = <<>>
    /\ answers = NoAnswers
    /\ consistent = TRUE
    /\ text = <<>>
    /\ found = <<>>
    /\ spans = <<>>
    /\ ents = <<>>

\* ---------------------------------------------------------------- actions

\* lines 92-93
Load ==
    /\ pc = "load"
    /\ LET c == load_cache(store)
       IN  IF c.raised
           THEN /\ pc' = "aborted"
                /\ UNCHANGED <<known, seen_addrs>>
           ELSE /\ pc' = "fetch"
                /\ known' = c.value
                /\ seen_addrs' = SeenOf(c.value)
    /\ UNCHANGED <<store, new_found, feedLeft, post, extracted, ci, coords, run,
                   store0, hist, rec, art>>

\* lines 95-96: the feed has some number of entries
FetchFeed ==
    /\ pc = "fetch"
    /\ IF mode = "replay"
       THEN feedLeft' = Len(script)
       ELSE feedLeft' \in 0..MaxPosts
    /\ new_found' = 0
    /\ pc' = "post"
    /\ UNCHANGED <<store, known, seen_addrs, post, extracted, ci, coords, run,
                   store0, hist, rec, art>>

\* line 95: feedparser raises
FetchFault ==
    /\ pc = "fetch"
    /\ mode # "replay"
    /\ pc' = "aborted"
    /\ UNCHANGED <<store, prog, run, store0, hist, rec, art>>

\* the entries the feed can hold at this position
NextEntries ==
    IF mode = "replay"
    THEN {p \in Posts : /\ p.kind # "badentry"
                        /\ extract_restaurants_flexible(p).value
                             = script[Len(script) - feedLeft + 1]}
    ELSE Posts

\* lines 98-104: pull the next post and extract its candidates
NextPost ==
    /\ pc = "post"
    /\ ~FeedExhausted(feedLeft)
    /\ feedLeft > 0
    /\ \E p \in NextEntries :
         /\ p.kind # "badentry"
         /\ LET e == extract_restaurants_flexible(p)
            IN  /\ post' = [date |-> p.date]
                /\ feedLeft' = feedLeft - 1
                /\ log' = IF mode = "record" THEN Append(log, e.value) ELSE log
                /\ IF e.raised
                   THEN /\ pc' = AfterExtractFault
                        /\ xfaults' = xfaults + 1
                        /\ UNCHANGED <<extracted, ci>>
                   ELSE /\ pc' = "cand"
                        /\ extracted' = e.value
                        /\ ci' = 0
                        /\ UNCHANGED xfaults
    /\ UNCHANGED <<store, known, seen_addrs, new_found, coords, run, store0, lastKind,
                   hits, calls, failed, pendingDelay, sleeps, saves,
                   mode, script, answers, consistent, art>>

\* lines 34-39: pull_posts raises on the entry; nothing in main catches it
PullFault ==
    /\ pc = "post"
    /\ ~FeedExhausted(feedLeft)
    /\ feedLeft > 0
    /\ \E p \in NextEntries : p.kind = "badentry"
    /\ pc' = "aborted"
    /\ UNCHANGED <<store, prog, run, store0, hist, rec, art>>

\* line 98 exhausted, line 119
EndFeed ==
    /\ pc = "post"
    /\ FeedExhausted(feedLeft)
    /\ pc' = "save"
    /\ UNCHANGED <<store, prog, run, store0, hist, rec, art>>

\* line 106 exhausted
EndPost ==
    /\ pc = "cand"
    /\ ci = Len(extracted)
    /\ pc' = "post"
    /\ UNCHANGED <<store, prog, run, store0, hist, rec, art>>

\* lines 106-108: the address is known
Skip ==
    /\ pc = "cand"
    /\ ci < Len(extracted)
    /\ IsKnown(extracted[ci + 1].address, seen_addrs)
    /\ ci' = NextIndex(ci)
    /\ UNCHANGED <<store, pc, known, seen_addrs, new_found, feedLeft, post, extracted,
                   coords, run, store0, hist, rec, art>>

\* what the run has learnt about the resolver, while it is being compared
Learn(a, c) ==
    IF mode = "free" \/ ~consistent
    THEN UNCHANGED <<answers, consistent>>
    ELSE IF answers[a] \in {"unasked", ToString(c)}
    THEN /\ answers' = [answers EXCEPT ![a] = ToString(c)]
         /\ UNCHANGED consistent
    ELSE /\ answers' = NoAnswers
         /\ consistent' = FALSE

\* line 109: one more resolver invocation for address a
Counted(c, a) ==
    IF a \in DOMAIN c THEN [c EXCEPT ![a] = @ + 1] ELSE (a :> 1) @@ c

\* lines 106-109: the address is new, ask the resolver
Geocode ==
    /\ pc = "cand"
    /\ ci < Len(extracted)
    /\ LET a == extracted[ci + 1].address
       IN  /\ ~IsKnown(a, seen_addrs)
           /\ \E resp \in Responses :
                /\ coords' = geocode(resp)
                /\ lastKind' = resp.kind
                /\ hits' = IF resp.kind = "loc" THEN hits + 1 ELSE hits
                /\ failed' = IF resp.kind = "loc" THEN failed ELSE failed \cup {a}
                /\ Learn(a, geocode(resp))
           /\ calls' = Counted(calls, a)
    /\ ci' = NextIndex(ci)
    /\ pendingDelay' = TRUE
    /\ pc' = "coords"
    /\ UNCHANGED <<store, known, seen_addrs, new_found, feedLeft, post, extracted,
                   run, store0, xfaults, sleeps, saves, mode, log, script, art>>

\* lines 110-111
DropUnresolved ==
    /\ pc = "coords"
    /\ coords = None
    /\ pc' = "cand"
    /\ UNCHANGED <<store, prog, run, store0, hist, rec, art>>

\* lines 112-114
AppendRecord ==
    /\ pc = "coords"
    /\ coords # None
    /\ known' = AppendKnown(known, Finalize(extracted[ci], coords, post))
    /\ pc' = "added"
    /\ UNCHANGED <<store, seen_addrs, new_found, feedLeft, post, extracted, ci, coords,
                   run, store0, hist, rec, art>>

\* lines 115-116
CountRecord ==
    /\ pc = "added"
    /\ seen_addrs' = AddSeen(seen_addrs, extracted[ci].address)
    /\ new_found' = Bump(new_found)
    /\ pc' = "sleep"
    /\ UNCHANGED <<store, known, feedLeft, post, extracted, ci, coords, run, store0,
                   hist, rec, art>>

\* line 117
Sleep ==
    /\ pc = "sleep"
    /\ pendingDelay' = FALSE
    /\ sleeps' = sleeps + 1
    /\ pc' = "cand"
    /\ UNCHANGED <<store, prog, run, store0, lastKind, hits, xfaults, calls, failed, saves,
                   rec, art>>

\* lines 121, 78: open("w") creates or truncates the file
SaveOpen ==
    /\ pc = "save"
    /\ saves' = saves + 1
    /\ store' = [exists |-> TRUE, valid |-> FALSE, data |-> <<>>]
    /\ pc' = "dump"
    /\ UNCHANGED <<prog, run, store0, lastKind, hits, xfaults, calls, failed, pendingDelay,
                   sleeps, rec, art>>

\* line 78: open("w") raises (no permission, read-only file system)
SaveOpenFault ==
    /\ pc = "save"
    /\ saves' = saves + 1
    /\ pc' = "aborted"
    /\ UNCHANGED <<store, prog, run, store0, lastKind, hits, xfaults, calls, failed,
                   pendingDelay, sleeps, rec, art>>

\* line 79: json.dump writes the whole list and the file is closed
SaveDump ==
    /\ pc = "dump"
    /\ store' = [exists |-> TRUE, valid |-> TRUE, data |-> known]
    /\ pc' = "map"
    /\ UNCHANGED <<prog, run, store0, hist, rec, art>>

\* line 79: a write fails (disk full, I/O error) after k records went out
SaveDumpFault ==
    /\ pc = "dump"
    /\ \E k \in 0..Len(known) :
         store' = [exists |-> TRUE, valid |-> FALSE, data |-> SubSeq(known, 1, k)]
    /\ pc' = "aborted"
    /\ UNCHANGED <<prog, run, store0, hist, rec, art>>

\* lines 123-141: the map is drawn from `known`; the dataset is not touched
BuildMap ==
    /\ pc = "map"
    /\ pc' = "done"
    /\ UNCHANGED <<store, prog, run, store0, hist, rec, art>>

\* line 144: the next scheduled run, a new process
StartRun ==
    /\ pc \in {"done", "aborted"}
    /\ run < MaxRuns
    /\ run' = run + 1
    /\ pc' = "load"
    /\ known' = <<>>
    /\ seen_addrs' = {}
    /\ new_found' = 0
    /\ feedLeft' = 0
    /\ post' = NoPost
    /\ extracted' = <<>>
    /\ ci' = 0
    /\ coords' = None
    /\ lastKind' = "-"
    /\ hits' = 0
    /\ xfaults' = 0
    /\ store0' = store
    /\ calls' = NoCalls
    /\ failed' = {}
    /\ pendingDelay' = FALSE
    /\ sleeps' = 0
    /\ saves' = 0
    /\ log' = <<>>
    /\ IF mode = "record" /\ pc = "done"
       THEN /\ mode' = "replay"
            /\ script' = log
            /\ UNCHANGED <<answers, consistent>>
       ELSE /\ mode' \in Modes(run + 1)
            /\ script' = <<>>
            /\ answers' = NoAnswers
            /\ consistent' = TRUE
    /\ UNCHANGED <<store, art>>

Next ==
    \/ Load
    \/ FetchFeed
    \/ FetchFault
    \/ NextPost
    \/ PullFault
    \/ EndFeed
    \/ EndPost
    \/ Skip
    \/ Geocode
    \/ DropUnresolved
    \/ AppendRecord
    \/ CountRecord
    \/ Sleep
    \/ SaveOpen
    \/ SaveOpenFault
    \/ SaveDump
    \/ SaveDumpFault
    \/ BuildMap
    \/ StartRun

Spec == Init /\ [][Next]_vars

\* One run in which nothing raises past main(): lines 90-141 without the
\* faults of feedparser, pull_posts and save_cache.  The process is
\* sequential, so whatever step is next is eventually taken.
NextLive ==
    \/ Load
    \/ FetchFeed
    \/ NextPost
    \/ EndFeed
    \/ EndPost
    \/ Skip
    \/ Geocode
    \/ DropUnresolved
    \/ AppendRecord
    \/ CountRecord
    \/ Sleep
    \/ SaveOpen
    \/ SaveDump
    \/ BuildMap

SpecLive == Init /\ [][NextLive]_vars /\ WF_vars(NextLive)

\* ------------------------------------------------------------ properties

NoDup(recs) ==
    \A i, j \in 1..Len(recs) : i # j => recs[i].address # recs[j].address

IsPrefix(s, t) ==
    Len(s) <= Len(t) /\ SubSeq(t, 1, Len(s)) = s

Range(recs) == {recs[i] : i \in 1..Len(recs)}

\* the inner loop is about to take this candidate
AtCandidate == pc = "cand" /\ ci < Len(extracted)
NextAddress == extracted[ci + 1].address

\* C1: no two records of `known` share an address at any point of a run, and
\* neither do two records of the file, in every run from the first (no file)
\* on, for every feed and every pattern of resolver answers.
C1_UniqueAddress ==
    NoDup(known) /\ NoDup(store.data)

\* C1: a second run has ended with two records on file, one of them for an
\* address the resolver was asked about twice in that run.
C1_Witness ==
    /\ run = 2 /\ pc = "done" /\ store.valid /\ Len(store.data) = 2
    /\ store0.valid /\ Len(store0.data) = 1
    /\ \E a \in Addrs : calls[a] = 2 /\ a \in Addresses(known)

\* C2: within a run `known` only grows at its end: every step of a run keeps
\* the old list as a prefix of the new one, so the loaded records stay in
\* front, in order and unchanged, and an appended record is never touched.
C2_AppendOnly ==
    [][ /\ run' = run => IsPrefix(known, known')
        /\ (pc' \notin {"load", "aborted"} /\ store0'.valid)
               => IsPrefix(store0'.data, known') ]_vars

\* C2: a run that loaded one record has appended a second one behind it.
C2_Witness ==
    /\ pc = "sleep" /\ store0.valid /\ Len(store0.data) = 1
    /\ Len(known) = 2 /\ known[1] = store0.data[1]

\* C3: when a run has ended, normally or by any fault, the file holds every
\* record it held when the run started.
C3_Monotone ==
    (pc \in {"done", "aborted"} /\ store0.valid)
        => (store.valid /\ Range(store0.data) \subseteq Range(store.data))

\* C4: a run aborted by a fault of save_cache leaves the dataset persisted
\* before it on file, untouched.
C4_StoreUntouched ==
    (pc = "aborted" /\ saves = 1 /\ store0.valid) => store = store0

\* C5: save_cache is called at most once in a run and only when the feed has
\* no entry left and the last post's candidates are all taken; until then,
\* also in a run aborted before that point, the file is as it was at start.
C5_PersistOnceAtEnd ==
    /\ saves <= 1
    /\ saves = 0 => store = store0
    /\ saves = 1 => /\ pc \in {"dump", "map", "done", "aborted"}
                    /\ feedLeft = 0
                    /\ ci = Len(extracted)
    /\ pc \in {"dump", "map", "done"} => saves = 1

\* C5: a run that appended a record has been aborted before the save, and
\* the file still is the non-empty one of the run's start.
C5_Witness ==
    /\ pc = "aborted" /\ saves = 0 /\ new_found > 0
    /\ store0.valid /\ store0.data # <<>> /\ store = store0

\* C6: the resolver is never invoked while an earlier invocation of the run
\* has not yet been followed by the sleep.
C6_DelayBetweenCalls ==
    [][(AtCandidate /\ pc' = "coords") => ~pendingDelay]_vars

\* C7: the resolver is invoked at most once per address in one run.
C7_OncePerAddress ==
    \A a \in Addrs : calls[a] <= 1

\* C7 amended: the resolver is invoked at most once per candidate, at most
\* once per address within one article, and never for an address that is in
\* the dataset; a failed invocation is not repeated for its candidate.
C7_OncePerArticle ==
    [][ /\ (AtCandidate /\ pc' = "coords") =>
              /\ NextAddress \notin Addresses(known)
              /\ \A k \in 1..ci : extracted[k].address # NextAddress
              /\ calls' = [calls EXCEPT ![NextAddress] = @ + 1]
              /\ ci' = ci + 1
        /\ (run' = run /\ calls' # calls) => (AtCandidate /\ pc' = "coords")
        /\ (pc = "coords" /\ lastKind # "loc") =>
              (pc' = "cand" /\ calls' = calls /\ ci' = ci) ]_vars

\* C7: an address that failed to resolve has been submitted a second time
\* in the same run, for a later article.
C7_Witness ==
    \E a \in Addrs : calls[a] = 2 /\ a \in failed /\ pc = "coords"

\* C8: a candidate whose address is in the dataset, loaded or appended
\* earlier in the run, is passed over: no resolver invocation, no sleep, no
\* change of the dataset, the membership set, the counter or the file.
C8_KnownIsSkipped ==
    [][(AtCandidate /\ NextAddress \in Addresses(known)) =>
          /\ pc' = "cand" /\ ci' = ci + 1
          /\ calls' = calls /\ sleeps' = sleeps /\ pendingDelay' = pendingDelay
          /\ known' = known /\ seen_addrs' = seen_addrs /\ new_found' = new_found
          /\ store' = store /\ coords' = coords ]_vars

\* C8: one article's two candidates were both passed over, one for a loaded
\* address and one for an address appended earlier in this run.
C8_Witness ==
    /\ pc = "cand" /\ ci = 2 /\ Len(extracted) = 2
    /\ extracted[1].address \in Addresses(store0.data)
    /\ extracted[2].address \in Addresses(known) \ Addresses(store0.data)
    /\ calls[extracted[1].address] = 0 /\ calls[extracted[2].address] = 1
    /\ sleeps = 1 /\ new_found = 1 /\ ~pendingDelay

\* C9: an address whose resolution failed in a run is absent from the
\* dataset that run persists.
C9_FailedStaysAbsent ==
    (pc = "done" /\ store.valid) => failed \cap Addresses(store.data) = {}

\* C9 amended: a failed resolution (no match or error) changes neither the
\* dataset nor the membership set nor the file, and the loop goes on to the
\* next candidate; the address is then absent from the dataset, and it
\* enters the dataset of this run only if a later candidate with the same
\* address resolves; while it is absent a candidate with it is submitted.
C9_FailureIsolated ==
    [][ /\ (pc = "coords" /\ lastKind # "loc") =>
              /\ pc' = "cand"
              /\ known' = known /\ seen_addrs' = seen_addrs
              /\ new_found' = new_found /\ store' = store
              /\ extracted[ci].address \notin Addresses(known')
              /\ extracted[ci].address \notin seen_addrs'
        /\ (AtCandidate /\ pc' = "coords" /\ lastKind' # "loc") =>
              /\ known' = known /\ seen_addrs' = seen_addrs /\ store' = store
              /\ NextAddress \in failed'
        /\ \A a \in failed :
              (run' = run /\ a \notin Addresses(known) /\ a \in Addresses(known'))
                 => (pc = "coords" /\ lastKind = "loc" /\ extracted[ci].address = a
                     /\ calls[a] >= 2)
        /\ (AtCandidate /\ NextAddress \notin Addresses(known)) => pc' = "coords"
      ]_vars

\* C9: a run with a failed address and an appended one has persisted its
\* dataset without the failed address.
C9_Witness ==
    /\ pc = "done" /\ store.valid /\ new_found = 1
    /\ failed # {} /\ failed \cap Addresses(store.data) = {}

\* C10: a run that gets the candidate lists of the completed run before it,
\* while the resolver has given one answer per address over both runs,
\* appends nothing: its dataset, in memory and on file, is the one the
\* first pass produced.
C10_Idempotent ==
    (mode = "replay" /\ consistent /\ pc # "load") =>
        /\ known = store0.data
        /\ new_found = 0
        /\ pc = "done" => store = store0

\* C10: the second pass over two posts is through; it asked the resolver
\* again about an address that had failed, and the first pass had appended
\* a record.
C10_Witness ==
    /\ mode = "replay" /\ consistent /\ pc = "done"
    /\ Len(script) = 2 /\ store0.data # <<>>
    /\ failed # {}

\* the number of records the run loaded
LoadedLen == Len(store0.data)

\* C11: a post whose extraction raises is passed over: the loop stays at the
\* next entry of the feed, the run is not aborted, and the dataset, the
\* membership set, the counter, the file and the resolver are not touched;
\* the file is written only once the feed has no entry left.
C11_ExtractionFaultIsolated ==
    [][ /\ (run' = run /\ xfaults' # xfaults) =>
              /\ pc = "post" /\ pc' = "post"
              /\ xfaults' = xfaults + 1
              /\ feedLeft' = feedLeft - 1
              /\ known' = known /\ seen_addrs' = seen_addrs
              /\ new_found' = new_found /\ store' = store
              /\ calls' = calls /\ sleeps' = sleeps /\ extracted' = extracted
        /\ (xfaults > 0 /\ pc' = "aborted") =>
              (pc \in {"save", "dump"} \/ (pc = "post" /\ feedLeft > 0))
      ]_vars

\* C11: a run in which one extraction raised has appended a record from
\* another post and persisted it.
C11_Witness ==
    /\ pc = "done" /\ xfaults = 1 /\ new_found = 1
    /\ store.valid /\ Len(store.data) = 1 /\ ~store0.exists

\* C16: the record appended is the current candidate with the resolver's
\* coordinates and the published-date text of the post it was extracted
\* from ("" when the post has none); its address was not in the dataset,
\* so it is the first candidate of that address that resolved.
C16_DateIsPublishDate ==
    [][(pc = "coords" /\ pc' = "added") =>
          /\ Len(known') = Len(known) + 1
          /\ lastKind = "loc"
          /\ LET x == known'[Len(known')]
             IN  /\ x.date_added = post.date
                 /\ x.address = extracted[ci].address
                 /\ x.name = extracted[ci].name
                 /\ x.blurb = extracted[ci].blurb
                 /\ <<x.lat, x.lon>> = coords
                 /\ x.address \notin Addresses(known) ]_vars

\* C16: a record of a dated post is followed by a record of an undated
\* post, for an address whose first candidate had failed to resolve.
C16_Witness ==
    /\ pc = "added" /\ Len(known) = 2 /\ post.date = ""
    /\ known[1].date_added = "d1" /\ known[2].date_added = ""
    /\ calls[known[2].address] = 2

\* C17: once the dataset is loaded the run reaches the save; every pull uses
\* up one entry of the feed and every turn of the inner loop one candidate,
\* so that no post and no candidate is taken twice.
C17_Terminates ==
    /\ (pc = "load") ~> (pc = "save")
    /\ [][ /\ (pc = "post" /\ feedLeft > 0) => feedLeft' = feedLeft - 1
           /\ pc \notin {"post", "fetch"} => feedLeft' = feedLeft
           /\ AtCandidate => ci' = ci + 1
           /\ pc \notin {"cand", "post"} => ci' = ci ]_vars

\* C17: the loop is over after a failed, a skipped and two appended
\* candidates.
C17_Witness ==
    /\ pc = "save" /\ new_found = 2 /\ failed # {} /\ feedLeft = 0

\* C18: at the top of the outer and of the inner loop, and when the loops
\* are over, seen_addrs is the set of the addresses of `known`.
C18_SeenMatchesKnown ==
    pc \in {"post", "cand", "save"} => seen_addrs = Addresses(known)

\* C18: the inner loop is at its top with one loaded and one appended
\* record.
C18_Witness ==
    /\ pc = "cand" /\ Len(known) = 2 /\ LoadedLen = 1
    /\ Cardinality(seen_addrs) = 2

\* C19: at every point of a run from line 96 on, new_found is the number of
\* records appended since load and the number of resolver invocations that
\* gave a location.
C19_CounterAtEveryPoint ==
    pc \in {"post", "cand", "coords", "added", "sleep", "save", "dump", "map", "done"}
        => (new_found = Len(known) - LoadedLen /\ new_found = hits)

\* C19 amended: at the top of the loops, after the increment and from the
\* end of the loop on, new_found is the number of records appended since
\* load and the number of resolver invocations that gave a location; inside
\* an iteration it is behind by the one record being added.
C19_CounterAtBoundaries ==
    /\ pc \in {"post", "cand", "sleep", "save", "dump", "map", "done"}
          => (new_found = Len(known) - LoadedLen /\ new_found = hits)
    /\ pc = "coords"
          => /\ new_found = Len(known) - LoadedLen
             /\ hits = new_found + (IF lastKind = "loc" THEN 1 ELSE 0)
    /\ pc = "added"
          => (new_found + 1 = Len(known) - LoadedLen /\ new_found + 1 = hits)

\* C19: the loop of a run that loaded one record is over with one more
\* record counted.
C19_Witness ==
    /\ pc = "save" /\ new_found = 1 /\ LoadedLen = 1 /\ Len(known) = 2 /\ hits = 1

\* ------------------------------------------------- the text of an article
\* A text is a sequence of one-character strings.

SnippetTail == 140     \* line 52: characters taken after the match
SnippetMax  == 260     \* line 52: length the blurb is cut to
MaxDigits   == 5       \* lines 24-27: \d{1,5}
ZipDigits   == 5       \* line 24: \d{5}
MaxEnts     == 1       \* entities the recogniser reports for one article

Glyph == "ELLIPSIS"    \* line 52: the one character U+2026

Digits == {"0", "1", "2", "3", "4", "5", "6", "7", "8", "9"}

UpperCase ==
    <<"A", "B", "C", "D", "E", "F", "G", "H", "I", "J", "K", "L", "M", "N", "O", "P",
      "Q", "R", "S", "T", "U", "V", "W", "X", "Y", "Z">>

LowerCase ==
    <<"a", "b", "c", "d", "e", "f", "g", "h", "i", "j", "k", "l", "m", "n", "o", "p",
      "q", "r", "s", "t", "u", "v", "w", "x", "y", "z">>

Letters == {UpperCase[i] : i \in 1..Len(UpperCase)} \cup {LowerCase[i] : i \in 1..Len(LowerCase)}

LowerOf == [c \in {UpperCase[i] : i \in 1..Len(UpperCase)} |->
               LowerCase[CHOOSE i \in 1..Len(UpperCase) : UpperCase[i] = c]]

\* re.I: letters compare without case
ToLower(c) == IF c \in DOMAIN LowerOf THEN LowerOf[c] ELSE c

Min(a, b) == IF a < b THEN a ELSE b

\* the element of a set of one element
Only(S) == CHOOSE x \in S : TRUE

Spaces      == {" ", "\n", "\t"}
WordChars   == Letters \cup Digits \cup {"_"}
\* line 24: [\w\s.,'&/-]
StreetChars == WordChars \cup Spaces \cup {".", ",", "'", "&", "/", "-"}
\* line 26: [\w\s.'/-]
CornerChars == WordChars \cup Spaces \cup {".", "'", "/", "-"}

\* the character classes of lines 24-27
InClass(cls, c) ==
    CASE cls = "digit"    -> c \in Digits
      [] cls = "letter"   -> c \in Letters
      [] cls = "space"    -> c \in Spaces
      [] cls = "street"   -> c \in StreetChars
      [] cls = "corner"   -> c \in CornerChars
      [] cls = "comma"    -> c = ","
      [] cls = "amp"      -> c = "&"
      [] cls = "notcomma" -> c # ","

\* a greedy repetition of a class, max < 0 for no upper limit
Rep(cls, min, max) == [kind |-> "rep", cls |-> cls, min |-> min, max |-> max]
\* the alternation (Brooklyn|Bronx|Queens|Manhattan|Staten Island|New York|NYC)
Borough == [kind |-> "borough", cls |-> "", min |-> 0, max |-> 0]

NumberedStreet ==
    << Rep("digit", 1, MaxDigits), Rep("letter", 0, 1), Rep("space", 1, -1),
       Rep("street", 1, -1) >>
CommaBorough ==
    << Rep("comma", 1, 1), Rep("space", 0, -1), Borough >>

\* lines 23-28
ADDRESS_PATTERNS ==
    << NumberedStreet \o CommaBorough
           \o << Rep("notcomma", 0, -1), Rep("digit", ZipDigits, ZipDigits) >>,
       NumberedStreet \o CommaBorough,
       << Rep("corner", 1, -1), Rep("amp", 1, 1), Rep("corner", 1, -1) >> \o CommaBorough,
       NumberedStreet >>

\* lines 24-26, 59: the borough names, in the order of the alternation
BoroughNames ==
    << <<"B", "r", "o", "o", "k", "l", "y", "n">>,
       <<"B", "r", "o", "n", "x">>,
       <<"Q", "u", "e", "e", "n", "s">>,
       <<"M", "a", "n", "h", "a", "t", "t", "a", "n">>,
       <<"S", "t", "a", "t", "e", "n", " ", "I", "s", "l", "a", "n", "d">>,
       <<"N", "e", "w", " ", "Y", "o", "r", "k">>,
       <<"N", "Y", "C">> >>

\* the number of characters of class cls from pos on, at most cap
RunLen(t, cls, pos, cap) ==
    LET hi == Min(Len(t), pos + cap - 1)
        q  == CHOOSE q \in pos..(hi + 1) :
                  /\ q = hi + 1 \/ ~InClass(cls, t[q])
                  /\ \A r \in pos..(q - 1) : InClass(cls, t[r])
    IN  q - pos

\* does word w stand at pos, letters compared without case
StandsAt(t, pos, word) ==
    /\ pos + Len(word) - 1 <= Len(t)
    /\ \A i \in 1..Len(word) : ToLower(t[pos + i - 1]) = ToLower(word[i])

\* The backtracking matcher of re: the position after the match of pieces
\* k.. that starts at pos, the first one in the order the engine tries them
\* (a repetition from its longest run down, an alternation left to right),
\* or 0 when there is none.
RECURSIVE MatchAt(_, _, _, _), TryCounts(_, _, _, _, _, _), TryBoroughs(_, _, _, _, _)
MatchAt(t, ps, k, pos) ==
    IF k > Len(ps) THEN pos
    ELSE IF ps[k].kind = "rep"
    THEN Only({TryCounts(t, ps, k, pos, n, ps[k].min) :
                  n \in {RunLen(t, ps[k].cls, pos,
                                IF ps[k].max < 0 THEN Len(t) ELSE ps[k].max)}})
    ELSE TryBoroughs(t, ps, k, pos, 1)

\* a repetition that can take n characters: the longest count, not below
\* min, after which the rest of the pattern matches
TryCounts(t, ps, k, pos, n, min) ==
    LET ends == {<<c, MatchAt(t, ps, k + 1, pos + c)>> : c \in min..n}
        good == {x \in ends : x[2] # 0}
    IN  IF good = {} THEN 0
        ELSE (CHOOSE x \in good : \A y \in good : y[1] <= x[1])[2]

TryBoroughs(t, ps, k, pos, j) ==
    IF j > Len(BoroughNames) THEN 0
    ELSE LET e == IF StandsAt(t, pos, BoroughNames[j])
                  THEN MatchAt(t, ps, k + 1, pos + Len(BoroughNames[j]))
                  ELSE 0
         IN  IF e # 0 THEN e ELSE TryBoroughs(t, ps, k, pos, j + 1)

\* the matches among the starting positions in starts, from pos on, left to
\* right, each search starting where the match before it ended
RECURSIVE Leftmost(_, _, _, _)
Leftmost(t, ps, starts, pos) ==
    LET rest == {q \in starts : q >= pos}
    IN  IF rest = {} THEN <<>>
        ELSE LET s == CHOOSE q \in rest : \A r \in rest : q <= r
                 e == MatchAt(t, ps, 1, s)
             IN  <<[start |-> s, end |-> e - 1]>> \o Leftmost(t, ps, starts, e)

\* line 48, pattern.finditer
FindIter(t, ps) ==
    Leftmost(t, ps, {q \in 1..Len(t) : MatchAt(t, ps, 1, q) # 0}, 1)

\* the positions of the line breaks of s, and the n-th of them
Breaks(s) == {q \in 1..Len(s) : s[q] = "\n"}
NthBreak(s, n) ==
    IF n = 0 THEN 0
    ELSE CHOOSE q \in Breaks(s) : Cardinality({r \in Breaks(s) : r <= q}) = n

\* str.splitlines on "\n": a line break ends a line, and what follows the
\* last break is a line only if it is not empty
SplitLines(s) ==
    LET nb == Cardinality(Breaks(s))
        n  == IF NthBreak(s, nb) < Len(s) THEN nb + 1 ELSE nb
    IN  [j \in 1..n |->
            SubSeq(s, NthBreak(s, j - 1) + 1,
                   IF j <= nb THEN NthBreak(s, j) - 1 ELSE Len(s))]

\* sep.join(lines)
RECURSIVE Join(_, _)
Join(lines, sep) ==
    IF lines = <<>> THEN <<>>
    ELSE IF Len(lines) = 1 THEN lines[1]
    ELSE lines[1] \o <<sep>> \o Join(Tail(lines), sep)

\* str.strip
RECURSIVE Strip(_)
Strip(s) ==
    IF s = <<>> THEN s
    ELSE IF InClass("space", s[1]) THEN Strip(Tail(s))
    ELSE IF InClass("space", s[Len(s)]) THEN Strip(SubSeq(s, 1, Len(s) - 1))
    ELSE s

Take(s, n) == SubSeq(s, 1, Min(n, Len(s)))

Unnamed ==
    <<"U", "n", "n", "a", "m", "e", "d">>

\* line 52 without the cut to 260 characters
Blurb_uncut(t, s, e) ==
    Join(SplitLines(SubSeq(t, s, Min(e + SnippetTail, Len(t)))), Glyph)

\* line 52: the match and the 140 characters after it, the lines joined by
\* the glyph, cut to 260 characters (s..e are the match's positions, from 1)
Blurb(t, s, e) ==
    Take(Join(SplitLines(SubSeq(t, s, Min(e + SnippetTail, Len(t)))), Glyph),
         SnippetMax)

\* lines 50-51: the last line before the match
NameLine(t, s) ==
    LET before == SplitLines(SubSeq(t, 1, s - 1))
    IN  IF before = <<>> THEN Unnamed ELSE Strip(before[Len(before)])

\* lines 49-53: the record of one match
MatchRecord(t, m) ==
    [name |-> NameLine(t, m.start),
     address |-> Strip(SubSeq(t, m.start, m.end)),
     blurb |-> Blurb(t, m.start, m.end)]

\* lines 47-48: the matches of all patterns, pattern by pattern
RECURSIVE PatternSpans(_, _)
PatternSpans(t, k) ==
    IF k > Len(ADDRESS_PATTERNS) THEN <<>>
    ELSE LET ms == FindIter(t, ADDRESS_PATTERNS[k])
         IN  [i \in 1..Len(ms) |-> [src |-> k, start |-> ms[i].start, end |-> ms[i].end]]
                 \o PatternSpans(t, k + 1)

HasDigit(s) == \E i \in 1..Len(s) : s[i] \in Digits

\* `b in ent.text`: the characters as they are
Contains(s, word) ==
    \E p \in 1..(Len(s) - Len(word) + 1) :
        \A i \in 1..Len(word) : s[p + i - 1] = word[i]

\* lines 58-59 without the test of line 59
KeepEntity_any(ent) ==
    ent.label \in {"ORG", "FAC", "GPE", "LOC"}

\* lines 58-59
KeepEntity(ent) ==
    /\ ent.label \in {"ORG", "FAC", "GPE", "LOC"}
    /\ \/ HasDigit(ent.text)
       \/ \E j \in 1..Len(BoroughNames) : Contains(ent.text, BoroughNames[j])

\* lines 57-60
RECURSIVE EntityRecords(_)
EntityRecords(es) ==
    IF es = <<>> THEN <<>>
    ELSE (IF KeepEntity(Head(es))
          THEN <<[name |-> Head(es).text, address |-> Head(es).text, blurb |-> <<>>]>>
          ELSE <<>>) \o EntityRecords(Tail(es))

\* ------------------------------------------------ the articles examined

HeadLucia ==
    <<"L", "u", "c", "i", "a", "'", "s", " ", "T", "r", "a", "t", "t", "o", "r", "i",
      "a", "\n">>
HeadNone ==
    <<>>
HeadInline ==
    <<"E", "a", "t", " ", "a", "t", " ">>
AddrZipState ==
    <<"1", "2", "3", " ", "S", "m", "i", "t", "h", " ", "S", "t", ",", " ", "B", "r",
      "o", "o", "k", "l", "y", "n", ",", " ", "N", "Y", " ", "1", "1", "2", "3", "1">>
AddrBorough ==
    <<"4", "5", " ", "M", "a", "i", "n", " ", "S", "t", ",", " ", "Q", "u", "e", "e",
      "n", "s">>
AddrZip ==
    <<"9", " ", "E", "l", "m", " ", "S", "t", ",", " ", "B", "r", "o", "n", "x", " ",
      "1", "0", "4", "5", "1">>
AddrCorner ==
    <<"O", "a", "k", " ", "S", "t", " ", "&", " ", "P", "i", "n", "e", " ", "S", "t",
      ",", " ", "n", "y", "c">>
AddrPlain ==
    <<"f", "i", "n", "e", " ", "f", "o", "o", "d">>
AddrNoBorough ==
    <<"O", "a", "k", " ", "S", "t", " ", "&", " ", "P", "i", "n", "e", " ", "S", "t">>
ProseUnit ==
    <<"g", "o", "o", "d", " ", "f", "o", "o", "d", ",", " ">>
Annex ==
    <<"!", "\n", "A", "n", "n", "e", "x", "\n">>
LuciaName ==
    <<"L", "u", "c", "i", "a", "'", "s", " ", "T", "r", "a", "t", "t", "o", "r", "i",
      "a">>
RECURSIVE Prose(_)
Prose(n) ==
    IF n <= 0 THEN <<>> ELSE Take(ProseUnit, n) \o Prose(n - Len(ProseUnit))

Heads     == {HeadLucia, HeadNone, HeadInline}
AddrLines == {AddrZipState, AddrBorough, AddrZip, AddrCorner, AddrPlain, AddrNoBorough}
ProseLens == {20, 139, 200, 300}

\* what follows the address line: nothing, a line break, prose on the next
\* line, prose after an exclamation mark, or the same address once more
Tails(a) ==
    {<<>>, <<"\n">>, Annex \o a}
    \cup {<<"\n">> \o Prose(n) : n \in ProseLens}
    \cup {<<"!", " ">> \o Prose(n) : n \in ProseLens}

Articles == UNION {{h \o a \o t : h \in Heads, t \in Tails(a)} : a \in AddrLines}


\* ---------------------------------- one article through lines 41-69, 106-117

EntLabels == {"ORG", "PERSON"}
EntTexts  == {LuciaName} \cup AddrLines

\* line 56: what the recogniser can report for a text: labelled pieces of it
Entities(t) == [label : EntLabels, text : {x \in EntTexts : Contains(t, x)}]

\* line 60 appends after the pattern loop: the place of an entity in the order
EntitySource == Len(ADDRESS_PATTERNS) + 1

\* a first run without a cache file, at line 100 with the one post of the feed
InitX ==
    /\ store = NoStore
    /\ pc = "extract"
    /\ known = <<>>
    /\ seen_addrs = {}
    /\ new_found = 0
    /\ feedLeft = 0
    /\ post \in {[date |-> d] : d \in Dates}
    /\ extracted = <<>>
    /\ ci = 0
    /\ coords = None
    /\ lastKind = "-"
    /\ hits = 0
    /\ xfaults = 0
    /\ run = 1
    /\ store0 = NoStore
    /\ calls = <<>>
    /\ failed = {}
    /\ pendingDelay = FALSE
    /\ sleeps = 0
    /\ saves = 0
    /\ mode = "free"
    /\ log = <<>>
    /\ script = <<>>
    /\ answers = NoAnswers
    /\ consistent = TRUE
    /\ text \in Articles
    /\ found = <<>>
    /\ spans = <<>>
    /\ ents = <<>>

\* lines 47-53
ExtractPatterns ==
    /\ pc = "extract"
    /\ spans' = PatternSpans(text, 1)
    /\ found' = [k \in 1..Len(spans') |-> MatchRecord(text, spans'[k])]
    /\ pc' = "ner"
    /\ UNCHANGED <<store, prog, run, store0, hist, rec, text, ents>>

\* lines 56-60
ExtractEntities ==
    /\ pc = "ner"
    /\ \E es \in SeqsUpTo(Entities(text), MaxEnts) :
         /\ ents' = es
         /\ found' = found \o EntityRecords(es)
         /\ spans' = spans \o [k \in 1..Len(EntityRecords(es)) |->
                                  [src |-> EntitySource, start |-> 0, end |-> 0]]
    /\ pc' = "dedup"
    /\ UNCHANGED <<store, prog, run, store0, hist, rec, text>>

\* lines 62-69, 100, 106
Unique ==
    /\ pc = "dedup"
    /\ extracted' = RemoveDuplicates(found, {}, <<>>)
    /\ ci' = 0
    /\ pc' = "cand"
    /\ UNCHANGED <<store, known, seen_addrs, new_found, feedLeft, post, coords, run,
                   store0, hist, rec, art>>

NextX ==
    \/ ExtractPatterns
    \/ ExtractEntities
    \/ Unique
    \/ Geocode
    \/ DropUnresolved
    \/ AppendRecord
    \/ CountRecord
    \/ Sleep
    \/ EndPost
    \/ EndFeed

SpecExtract == InitX /\ [][NextX]_vars

\* -------------------------------------------------- extraction properties

PatternRecords == {k \in 1..Len(found) : spans[k].src <= Len(ADDRESS_PATTERNS)}

\* the first record of `found` with address a
FirstWith(a) ==
    CHOOSE k \in 1..Len(found) :
        /\ found[k].address = a
        /\ \A j \in 1..(k - 1) : found[j].address # a

\* `found` is filled pattern by pattern, a pattern's matches from left to
\* right, and the recogniser's entities last
InFixedOrder ==
    \A k, l \in 1..Len(spans) :
        k < l => \/ spans[k].src < spans[l].src
                 \/ /\ spans[k].src = spans[l].src
                    /\ spans[k].src = EntitySource \/ spans[k].end < spans[l].start

\* two different patterns matched the identical span
SameSpan(k, l) ==
    /\ k \in PatternRecords /\ l \in PatternRecords
    /\ spans[k].src # spans[l].src
    /\ spans[k].start = spans[l].start /\ spans[k].end = spans[l].end

\* C12: the output of extract_restaurants_flexible holds every address at
\* most once; the record kept for an address is the first one of `found`,
\* which is filled in the fixed order (patterns in list order, matches in
\* text order, then entities); two patterns matching the identical span
\* leave exactly one record, the earlier pattern's.
C12_FirstRecordWins ==
    (pc = "cand" /\ ci = 0) =>
        /\ Len(spans) = Len(found)
        /\ InFixedOrder
        /\ \A k \in PatternRecords :
               found[k].address = Strip(SubSeq(text, spans[k].start, spans[k].end))
        /\ NoDup(extracted)
        /\ Addresses(extracted) = Addresses(found)
        /\ \A i \in 1..Len(extracted) : extracted[i] = found[FirstWith(extracted[i].address)]
        /\ \A i, j \in 1..Len(extracted) :
               i < j => FirstWith(extracted[i].address) < FirstWith(extracted[j].address)
        /\ \A k, l \in 1..Len(found) :
               (k < l /\ SameSpan(k, l)) =>
                   /\ Cardinality({i \in 1..Len(extracted) :
                                      extracted[i].address = found[l].address}) = 1
                   /\ \E i \in 1..Len(extracted) :
                          /\ extracted[i].address = found[l].address
                          /\ extracted[i].name = found[FirstWith(found[k].address)].name
                          /\ extracted[i].blurb = found[FirstWith(found[k].address)].blurb

\* two patterns matched one span, and two records of one address differ
C12_Witness ==
    /\ pc = "cand" /\ ci = 0
    /\ \E k, l \in 1..Len(found) : k < l /\ SameSpan(k, l)
    /\ \E k, l \in 1..Len(found) :
           /\ k < l /\ found[k].address = found[l].address
           /\ found[k].name # found[l].name
    /\ Len(extracted) >= 2
    /\ Len(extracted) < Len(found)

\* every line break replaced by the glyph
GlyphForBreaks(s) == [i \in 1..Len(s) |-> IF s[i] = "\n" THEN Glyph ELSE s[i]]

\* s without a line break at its very end
DropLastBreak(s) ==
    IF s # <<>> /\ s[Len(s)] = "\n" THEN SubSeq(s, 1, Len(s) - 1) ELSE s

\* C13 as stated: the snippet of a pattern-based candidate is the 140
\* characters that follow the matched span, the span itself not included,
\* line breaks replaced by the glyph, cut to 260 characters.
C13_SnippetFollowsSpan ==
    pc = "ner" =>
        \A k \in PatternRecords :
            found[k].blurb =
                Take(GlyphForBreaks(SubSeq(text, spans[k].end + 1,
                                           Min(spans[k].end + SnippetTail, Len(text)))),
                     SnippetMax)

\* C13 amended: the snippet of a pattern-based candidate is the text from
\* the first character of the matched span to 140 characters past its end
\* (or to the end of the text), a line break at the very end dropped, every
\* other line break replaced by the glyph, cut to 260 characters.
C13_SnippetFromSpanStart ==
    pc = "ner" =>
        \A k \in PatternRecords :
            /\ Len(found[k].blurb) <= SnippetMax
            /\ found[k].blurb =
                   Take(GlyphForBreaks(DropLastBreak(
                            SubSeq(text, spans[k].start,
                                   Min(spans[k].end + SnippetTail, Len(text))))),
                        SnippetMax)

\* a snippet that was cut to 260 characters and holds a glyph
C13_Witness ==
    /\ pc = "ner"
    /\ \E k \in PatternRecords :
           /\ Len(found[k].blurb) = SnippetMax
           /\ spans[k].end - spans[k].start + 1 + SnippetTail > SnippetMax
           /\ \E i \in 1..Len(found[k].blurb) : found[k].blurb[i] = Glyph

\* the name line, the address line, and 200 characters of prose
LuciaArticle == HeadLucia \o AddrZipState \o <<"\n">> \o Prose(200)

\* C14: the article "Lucia's Trattoria" / "123 Smith St, Brooklyn, NY 11231"
\* followed by 200 characters of prose yields a candidate with that name,
\* exactly that address, and a snippet of at most 260 characters.
C14_LuciaScenario ==
    (pc = "cand" /\ ci = 0 /\ text = LuciaArticle) =>
        \E i \in 1..Len(extracted) :
            /\ extracted[i].name = LuciaName
            /\ extracted[i].address = AddrZipState
            /\ Len(extracted[i].blurb) <= SnippetMax

\* the text holds no digit and no borough name, in any letter case
NoDigitNoBorough ==
    /\ ~HasDigit(text)
    /\ \A j \in 1..Len(BoroughNames) :
           \A p \in 1..Len(text) : ~StandsAt(text, p, BoroughNames[j])

\* C15: an article without a digit and without a borough name gives no
\* candidate, from the patterns or from the entities, and processing it
\* leaves the dataset as loaded and never invokes the resolver.
C15_NothingToFind ==
    NoDigitNoBorough =>
        /\ found = <<>> /\ spans = <<>> /\ extracted = <<>>
        /\ known = store0.data /\ seen_addrs = Addresses(store0.data)
        /\ new_found = 0
        /\ calls = <<>> /\ lastKind = "-" /\ hits = 0 /\ failed = {}
        /\ ~pendingDelay /\ sleeps = 0

\* such an article, with an ampersand and an organisation reported for it,
\* has gone through the whole loop
C15_Witness ==
    /\ pc = "save"
    /\ NoDigitNoBorough
    /\ Contains(text, AddrNoBorough)
    /\ Len(text) > SnippetMax
    /\ ents # <<>> /\ ents[1].label = "ORG" /\ ents[1].text = LuciaName

====
